---- MODULE Spec2Model ----
(***************************************************************************)
(* Model of sol.py: the scale calculation for a compressor operating point  *)
(* (calculate_scale) and the script that filters the operating map, scores  *)
(* it, selects the point of maximum scale, plots and prints.                *)
(*                                                                          *)
(* Floating-point quantities are modelled in decimal fixed point, each      *)
(* with the unit stated where it is computed.  A float is a pair:           *)
(*   <<"num", v>>  a finite number, v in the unit of the quantity           *)
(*   <<"nan", 0>>  NaN (a missing field of the table, or an absent scale)   *)
(*   <<"inf", 1>>  +infinity (numpy's result of a division by zero)         *)
(***************************************************************************)
EXTENDS Integers, Sequences, FiniteSets

VARIABLES
    pc,         \* position of the script / of the direct call
    df,         \* the operating map as read (line 46)
    valid_df,   \* rows that pass the pressure-ratio filter (lines 48, 51)
    result_df,  \* valid_df.dropna() (line 52)
    optimal,    \* the selected row (line 56), <<>> until selected
    figure,     \* what was plotted (lines 59-78), <<>> when nothing was
    stdout,     \* the lines printed
    error,      \* the uncaught exception that ended the run, <<>> when none
    arg,        \* direct call: the row and the number type handed over
    ret         \* direct call: the outcome of calculate_scale

vars == <<pc, df, valid_df, result_df, optimal, figure, stdout, error, arg, ret>>

(***************************************************************************)
(* Constants (lines 7-14), in fixed point                                   *)
(***************************************************************************)
\* specific heat ratio 1.4, in tenths
gamma == 14
\* gas constant 287.0 J/(kg K)
R == 287
\* dynamic viscosity 1.83e-5 Pa s, in 1e-7 Pa s
mu == 183
\* prototype length 0.2 m, in tenths of a metre
L_prototype == 2
\* design Mach number 0.55, in hundredths
M_target == 55
\* design Reynolds number 3.0e6
Re_target == 3000000
\* maximum pressure 250e3 Pa
p_max == 250000
\* inlet stagnation temperature 293.0 K
T01 == 293
\* the loss factor 0.985 of line 27, in thousandths
LossFactor == 985
\* the minimum pressure ratio 1.0686 of line 48, in 1e-4
MinP0Ratio == 10686

(***************************************************************************)
(* Floats                                                                   *)
(***************************************************************************)
Num(v) == <<"num", v>>
NaN == <<"nan", 0>>
Inf == <<"inf", 1>>
IsNum(x) == x[1] = "num"
IsNaN(x) == x[1] = "nan"

\* x >= c for a float x and a finite c: False for NaN, as IEEE comparison is
GreaterEq(x, c) == \/ x[1] = "inf"
                   \/ x[1] = "num" /\ x[2] >= c

(***************************************************************************)
(* Wide arithmetic: floor(a*b/c) and floor(sqrt(a*b)) without leaving the   *)
(* 32-bit integers, for a, b >= 0 and c > 0.                                *)
(***************************************************************************)
RECURSIVE MulDivQR(_, _, _)
MulDivQR(a, b, c) ==
    IF b = 0 THEN <<0, 0>>
    ELSE LET h == MulDivQR(a, b \div 2, c)
             t == 2 * h[2] + (b % 2) * a
         IN  <<2 * h[1] + (t \div c), t % c>>

\* the operands are evaluated before the recursion starts
MulDiv(a, b, c) == IF a >= 0 /\ b >= 0 /\ c > 0 THEN MulDivQR(a, b, c)[1] ELSE 0

RECURSIVE Newton(_, _, _)
Newton(a, b, s) ==
    LET n == (s + MulDiv(a, b, s)) \div 2
    IN  IF n < s THEN Newton(a, b, n) ELSE s

ISqrtProd(a, b) ==
    IF a = 0 \/ b = 0 THEN 0 ELSE Newton(a, b, IF a > b THEN a ELSE b)

\* x ** (n/2) for x in 1e-8 fixed point, result in 1e-8
RECURSIVE PowHalves(_, _)
PowHalves(x, n) ==
    IF n = 0 THEN 100000000
    ELSE IF n = 1 THEN ISqrtProd(x, 100000000)
    ELSE MulDiv(PowHalves(x, n - 2), x, 100000000)

(***************************************************************************)
(* calculate_scale (lines 19-40), one operator per assignment               *)
(***************************************************************************)
\* 1 + (gamma-1)/2 * M_target**2, in 1e-8
IsentropicFactor == 100000000 + (((gamma - 10) * M_target * M_target) * 10000) \div 20

\* gamma/(gamma-1), in halves (3.5 is 7 halves)
IsentropicExponent == (2 * gamma) \div (gamma - 10)

\* p01_of with a divisor that faults on every zero, numpy's included
p01_faulting(P0_ratio, kind) ==
    IF IsNaN(P0_ratio) THEN NaN
    ELSE IF P0_ratio[1] = "inf" THEN Num(0)
    ELSE IF P0_ratio[2] = 0 THEN <<"raise", 25>>
    ELSE IF P0_ratio[2] > 0
         THEN Num(MulDiv(p_max, 10000, P0_ratio[2]))
         ELSE Num(0 - MulDiv(p_max, 10000, 0 - P0_ratio[2]))

\* line 25: p01 = p_max / P0_ratio, in Pa.  A built-in float divisor of zero
\* raises ZeroDivisionError; a numpy float64 divisor of zero gives inf.
p01_of(P0_ratio, kind) ==
    IF IsNaN(P0_ratio) THEN NaN
    ELSE IF P0_ratio[1] = "inf" THEN Num(0)
    ELSE IF P0_ratio[2] = 0
         THEN (IF kind = "float" THEN <<"raise", 25>> ELSE Inf)
    ELSE IF P0_ratio[2] > 0
         THEN Num(MulDiv(p_max, 10000, P0_ratio[2]))
         ELSE Num(0 - MulDiv(p_max, 10000, 0 - P0_ratio[2]))

\* p02_of taking the inlet pressure for the station-2 pressure
p02_from_inlet(p01) == IF p01[1] = "num" THEN p01[2] ELSE p_max

\* line 26: p02 = p_max, whatever p01 is
p02_of(p01) == p_max

\* p04_of without the 1.5% loss
p04_lossless(p02) == p02

\* line 27: p04 = p02 * 0.985, in Pa
p04_of(p02) == (p02 * LossFactor) \div 1000

\* line 28: T04 = T01 * T0_ratio, in centikelvin (T0_ratio in hundredths)
T04_of(T0_ratio) == T01 * T0_ratio

\* line 31: T4 = T04 / (1 + (gamma-1)/2 * M_target**2), in millikelvin
T4_of(T04) == MulDiv(T04, 100000, IsentropicFactor \div 10000)

\* line 32: p4 = p04 / (...)**(gamma/(gamma-1)), in 0.01 Pa
p4_of(p04) ==
    MulDiv(p04 * 100, 100000000, PowHalves(IsentropicFactor, IsentropicExponent))

\* line 33: rho4 = p4 / (R * T4), in 1e-6 kg/m3
rho4_of(p4, T4) == MulDiv(p4, 10000000, R * T4)

\* line 34: C4 = M_target * (gamma * R * T4)**0.5, in mm/s
C4_of(T4) == (M_target * ISqrtProd(gamma * R * 100, T4)) \div 100

\* line 37: L_model = (Re_target * mu) / (rho4 * C4), in 1e-7 m
L_model_of(rho4, C4) == MulDiv(Re_target * mu, 100000, MulDiv(rho4, C4, 10000))

\* line 38: scale = L_model / L_prototype, in 1e-7
scale_of(L_model) == (L_model * 10) \div L_prototype

\* lines 28-38 for a finite positive T0_ratio and a station-2 pressure
ScaleChain(T0_ratio, p02) ==
    LET T4 == T4_of(T04_of(T0_ratio))
        p4 == p4_of(p04_of(p02))
    IN  scale_of(L_model_of(rho4_of(p4, T4), C4_of(T4)))

\* line 40: 0 <= scale <= 1, scale in 1e-7
InUnitInterval(scale) == 0 <= scale /\ scale <= 10000000

\* Return clamping the scale into [0,1]
ReturnClamped(scale) ==
    IF scale < 0 THEN <<"value", 0>>
    ELSE IF scale > 10000000 THEN <<"value", 10000000>>
    ELSE <<"value", scale>>

\* line 40: return scale if 0 <= scale <= 1 else None
Return(scale) == IF InUnitInterval(scale) THEN <<"value", scale>> ELSE <<"None">>

\* calculate_scale(row), the fields of row being numbers of type kind:
\* "float" (built-in) or "float64" (numpy, what a pandas row holds).
\*   <<"value", s>>   returns the scale s
\*   <<"None">>       returns None
\*   <<"raise", exception, line>>
calculate_scale(row, kind) ==
    LET P0_ratio == row.P0_ratio
        T0_ratio == row.T0_ratio
        p01 == p01_of(P0_ratio, kind)
    IN  IF p01[1] = "raise" THEN <<"raise", "ZeroDivisionError", 25>>
        ELSE IF IsNaN(T0_ratio) THEN <<"None">>
        \* T4 < 0: a built-in float to the power 0.5 is a complex number, which
        \* line 40 cannot compare; numpy gives nan, and nan is not in [0,1]
        ELSE IF T0_ratio[2] < 0
             THEN (IF kind = "float" THEN <<"raise", "TypeError", 40>> ELSE <<"None">>)
        \* T4 = 0: line 33 divides by zero; numpy gives inf, then inf * 0 = nan
        ELSE IF T0_ratio[2] = 0
             THEN (IF kind = "float" THEN <<"raise", "ZeroDivisionError", 33>>
                   ELSE <<"None">>)
        ELSE Return(ScaleChain(T0_ratio[2], p02_of(p01)))

(***************************************************************************)
(* The script (lines 46-86)                                                 *)
(***************************************************************************)
\* a table has at most MaxRows rows
MaxRows == 2

\* mdot_ref in g/s, T0_ratio in hundredths, P0_ratio in 1e-4; an empty field
\* of the input file is read as NaN
MapMdot == {NaN, Num(500)}
MapT0 == {NaN, Num(105), Num(115), Num(285)}
MapP0 == {Num(10685), Num(10686), Num(12000)}
MapRows == [mdot_ref : MapMdot, T0_ratio : MapT0, P0_ratio : MapP0]
Tables == UNION {[1 .. n -> MapRows] : n \in 0 .. MaxRows}

\* a frame is a sequence of rows in input order, each with its index label
\* (read_csv gives the labels 0, 1, 2, ...)
Labelled(d) ==
    [i \in 1 .. Len(d) |->
        [index |-> i - 1, mdot_ref |-> d[i].mdot_ref,
         T0_ratio |-> d[i].T0_ratio, P0_ratio |-> d[i].P0_ratio]]

\* line 48: df[df['P0_ratio'] >= 1.0686]
PassesFilter(r) == GreaterEq(r.P0_ratio, MinP0Ratio)
FilterRows(d) == SelectSeq(Labelled(d), PassesFilter)

\* FrameAfterFilter with df rebound to the filtered rows
FrameRebound(d) == SelectSeq(d, PassesFilter)

\* line 48: .copy(), and df is not rebound: df stays the table as read
FrameAfterFilter(d) == d

\* line 51: the value apply() stores in the scale column for one row
ScaleCell(r) ==
    LET out == calculate_scale(r, "float64")
    IN  IF out[1] = "value" THEN Num(out[2]) ELSE NaN

\* line 51: valid_df['scale'] = valid_df.apply(calculate_scale, axis=1)
WithScale(v) ==
    [i \in 1 .. Len(v) |->
        [index |-> v[i].index, mdot_ref |-> v[i].mdot_ref,
         T0_ratio |-> v[i].T0_ratio, P0_ratio |-> v[i].P0_ratio,
         scale |-> ScaleCell(v[i])]]

\* line 52: dropna() keeps a row when none of its cells is missing
NoMissingCell(r) ==
    /\ ~IsNaN(r.mdot_ref) /\ ~IsNaN(r.T0_ratio)
    /\ ~IsNaN(r.P0_ratio) /\ ~IsNaN(r.scale)
DropNa(v) == SelectSeq(v, NoMissingCell)

\* IdxMax taking the last row that holds the maximum
IdxMaxLast(rs) ==
    LET i == CHOOSE k \in 1 .. Len(rs) :
                 /\ \A j \in 1 .. Len(rs) : rs[j].scale[2] <= rs[k].scale[2]
                 /\ \A j \in (k + 1) .. Len(rs) : rs[j].scale[2] < rs[k].scale[2]
    IN  rs[i].index

\* line 56: idxmax(), the label of the first row holding the maximum
IdxMax(rs) ==
    LET i == CHOOSE k \in 1 .. Len(rs) :
                 /\ \A j \in 1 .. Len(rs) : rs[j].scale[2] <= rs[k].scale[2]
                 /\ \A j \in 1 .. (k - 1) : rs[j].scale[2] < rs[k].scale[2]
    IN  rs[i].index

\* line 56: .loc[label]
Loc(rs, label) == rs[CHOOSE k \in 1 .. Len(rs) : rs[k].index = label]

\* the x and y data handed to plt.plot (lines 62, 66)
Points(rs) == [i \in 1 .. Len(rs) |-> <<rs[i].mdot_ref, rs[i].P0_ratio>>]

\* f"{x:.3f}" of a scale held in 1e-7: the nearest thousandth
Format3(scale) == (scale + 5000) \div 10000

Init ==
    /\ pc = "filter"
    /\ df \in Tables
    /\ valid_df = <<>> /\ result_df = <<>>
    /\ optimal = <<>> /\ figure = <<>> /\ stdout = <<>> /\ error = <<>>
    /\ arg = <<>> /\ ret = <<>>

\* line 48
Filter ==
    /\ pc = "filter"
    /\ valid_df' = FilterRows(df)
    /\ df' = FrameAfterFilter(df)
    /\ pc' = "score"
    /\ UNCHANGED <<result_df, optimal, figure, stdout, error, arg, ret>>

\* line 51, at least one candidate
Score ==
    /\ pc = "score"
    /\ valid_df # <<>>
    /\ valid_df' = WithScale(valid_df)
    /\ pc' = "dropna"
    /\ UNCHANGED <<df, result_df, optimal, figure, stdout, error, arg, ret>>

\* line 51, no candidate, with a pandas whose apply() on an empty frame tries
\* the function on a row of NaN, gets None and returns an empty Series: the
\* scale column is added, empty
ScoreEmptySeries ==
    /\ pc = "score"
    /\ valid_df = <<>>
    /\ pc' = "dropna"
    /\ UNCHANGED <<df, valid_df, result_df, optimal, figure, stdout, error, arg, ret>>

\* line 51, no candidate, with a pandas whose apply() on an empty frame tries
\* the function on an empty Series (row['P0_ratio'] raises KeyError, which
\* apply() swallows) and returns a copy of the three-column frame: assigning
\* it to the one column 'scale' raises ValueError
ScoreEmptyFrame ==
    /\ pc = "score"
    /\ valid_df = <<>>
    /\ error' = <<"ValueError", 51>>
    /\ pc' = "error"
    /\ UNCHANGED <<df, valid_df, result_df, optimal, figure, stdout, arg, ret>>

\* line 52
DropMissing ==
    /\ pc = "dropna"
    /\ result_df' = DropNa(valid_df)
    /\ pc' = "branch"
    /\ UNCHANGED <<df, valid_df, optimal, figure, stdout, error, arg, ret>>

\* lines 54-56
Select ==
    /\ pc = "branch"
    /\ result_df # <<>>
    /\ optimal' = Loc(result_df, IdxMax(result_df))
    /\ pc' = "plot"
    /\ UNCHANGED <<df, valid_df, result_df, figure, stdout, error, arg, ret>>

\* lines 59-78
Plot ==
    /\ pc = "plot"
    /\ figure' = [all |-> Points(df),
                  valid |-> Points(result_df),
                  optimal |-> <<optimal.mdot_ref, optimal.P0_ratio>>,
                  label |-> <<"Optimal Point Scale =", Format3(optimal.scale[2])>>]
    /\ pc' = "print"
    /\ UNCHANGED <<df, valid_df, result_df, optimal, stdout, error, arg, ret>>

\* lines 81-84; mdot_ref and P0_ratio are held to 3 and 4 decimals
PrintResults ==
    /\ pc = "print"
    /\ stdout' = << <<"Maximum Scale:", Format3(optimal.scale[2])>>,
                    <<"Operating Point:">>,
                    <<"mdot_ref =", optimal.mdot_ref[2]>>,
                    <<"P0_ratio =", optimal.P0_ratio[2]>> >>
    /\ pc' = "done"
    /\ UNCHANGED <<df, valid_df, result_df, optimal, figure, error, arg, ret>>

\* lines 85-86
NoSolution ==
    /\ pc = "branch"
    /\ result_df = <<>>
    /\ stdout' = << <<"No valid solutions found!">> >>
    /\ pc' = "done"
    /\ UNCHANGED <<df, valid_df, result_df, optimal, figure, error, arg, ret>>

Next ==
    \/ Filter
    \/ Score
    \/ ScoreEmptySeries
    \/ ScoreEmptyFrame
    \/ DropMissing
    \/ Select
    \/ Plot
    \/ PrintResults
    \/ NoSolution

Spec == Init /\ [][Next]_vars

(***************************************************************************)
(* Direct calls of calculate_scale                                          *)
(***************************************************************************)
\* T0_ratio is drawn from -2 .. MaxT0 hundredths and NaN
MaxT0 == 300

CallT0 == {NaN} \cup {Num(t) : t \in (0 - 2) .. MaxT0}
CallP0 == {NaN, Num(0 - 12000), Num(0), Num(10685), Num(10686), Num(12000), Num(20000)}
CallMdot == {NaN, Num(500)}
Kinds == {"float", "float64"}

InitCalc ==
    /\ pc = "call"
    /\ arg \in [row : [mdot_ref : CallMdot, T0_ratio : CallT0, P0_ratio : CallP0],
                kind : Kinds]
    /\ ret = <<"pending">>
    /\ df = <<>> /\ valid_df = <<>> /\ result_df = <<>>
    /\ optimal = <<>> /\ figure = <<>> /\ stdout = <<>> /\ error = <<>>

Call ==
    /\ pc = "call"
    /\ ret' = calculate_scale(arg.row, arg.kind)
    /\ pc' = "returned"
    /\ UNCHANGED <<df, valid_df, result_df, optimal, figure, stdout, error, arg>>

NextCalc == Call

SpecCalc == InitCalc /\ [][NextCalc]_vars

(***************************************************************************)
(* Properties                                                               *)
(***************************************************************************)
Returned == pc = "returned"
AdmissibleCall == Returned /\ GreaterEq(arg.row.P0_ratio, MinP0Ratio)
Scored == pc \in {"dropna", "branch", "plot", "print", "done"}
Branched == pc \in {"plot", "print", "done"}
Ended == pc \in {"done", "error"}
NoSolutionLines == << <<"No valid solutions found!">> >>

\* the labels of the rows of a frame
Labels(rs) == {rs[i].index : i \in 1 .. Len(rs)}

\* C1: for P0_ratio >= 1.0686 calculate_scale returns the computed scale when
\* it lies in [0,1] and None otherwise: a returned value is never outside
\* [0,1] and is never a clamped one; on numpy numbers it always returns.
C1_ScaleInUnitIntervalOrNone ==
    AdmissibleCall =>
        /\ ret[1] = "value" =>
              /\ 0 <= ret[2] /\ ret[2] <= 10000000
              /\ ret[2] = ScaleChain(arg.row.T0_ratio[2], p_max)
        /\ arg.kind = "float64" => ret[1] \in {"value", "None"}

\* a call with an admissible P0_ratio whose computed scale exceeds 1
C1_Witness ==
    /\ AdmissibleCall
    /\ arg.kind = "float64"
    /\ arg.row.T0_ratio = Num(285)
    /\ ret = <<"None">>

C3_EmptyCandidatesEndNormally ==
    (\A i \in 1 .. Len(df) : ~PassesFilter(df[i])) =>
        /\ error = <<>>
        /\ figure = <<>>
        /\ pc = "done" => stdout = NoSolutionLines

\* C4: a run ends in exactly one of two outcomes: with a row of P0_ratio >=
\* 1.0686 and a present scale, the plot and the four result lines; otherwise
\* no plot and the single line "No valid solutions found!".  A plot exists
\* only if such a row exists.
HasValidSolution ==
    \E i \in 1 .. Len(df) :
        PassesFilter(df[i]) /\ calculate_scale(df[i], "float64")[1] = "value"

C4_ExactlyOneOutcome ==
    /\ figure # <<>> => HasValidSolution
    /\ Ended =>
          /\ pc = "done"
          /\ IF HasValidSolution
             THEN /\ figure # <<>>
                  /\ Len(stdout) = 4
                  /\ \A k \in 1 .. 4 : stdout[k] # NoSolutionLines[1]
             ELSE /\ figure = <<>>
                  /\ stdout = NoSolutionLines

\* C5: for P0_ratio >= 1.0686 the outcome of calculate_scale is the one it has
\* for the same T0_ratio with P0_ratio = 1.0686 and no mdot_ref: it depends on
\* neither P0_ratio nor mdot_ref.
C5_IndependentOfP0AndMdot ==
    AdmissibleCall =>
        ret = calculate_scale([mdot_ref |-> NaN,
                               T0_ratio |-> arg.row.T0_ratio,
                               P0_ratio |-> Num(MinP0Ratio)], arg.kind)

\* a call that returned a scale for another P0_ratio and a present mdot_ref
C5_Witness ==
    /\ AdmissibleCall
    /\ arg.row.P0_ratio = Num(20000)
    /\ arg.row.mdot_ref = Num(500)
    /\ ret[1] = "value"

\* C6 as stated: for T0_ratio = 1.15 and P0_ratio >= 1.0686 the scale is
\* within 0.5% of 0.630, between 0.62685 and 0.63315.
C6_Original ==
    (AdmissibleCall /\ arg.row.T0_ratio = Num(115)) =>
        /\ ret[1] = "value"
        /\ 6268500 <= ret[2] /\ ret[2] <= 6331500

\* C6 amended: for T0_ratio = 1.15 and P0_ratio >= 1.0686 the scale is within
\* 0.5% of 0.635, between 0.631825 and 0.638175.
C6_ScaleAtReferencePoint ==
    (AdmissibleCall /\ arg.row.T0_ratio = Num(115)) =>
        /\ ret[1] = "value"
        /\ 6318250 <= ret[2] /\ ret[2] <= 6381750

\* a call at T0_ratio = 1.15 that returned a scale
C6_Witness ==
    /\ AdmissibleCall
    /\ arg.row.T0_ratio = Num(115)
    /\ ret[1] = "value"

\* C7 as stated: a direct call with a zero or negative P0_ratio raises the
\* division fault of line 25.
C7_Original ==
    (Returned /\ IsNum(arg.row.P0_ratio) /\ arg.row.P0_ratio[2] <= 0) =>
        ret = <<"raise", "ZeroDivisionError", 25>>

\* C7 amended: the division of line 25 faults exactly when P0_ratio is a
\* built-in float zero; with a negative P0_ratio, or a numpy float64 zero, it
\* does not, and the call ends as it does for P0_ratio = 1.0686.
C7_DivisionFaultOnlyOnFloatZero ==
    Returned =>
        /\ ret = <<"raise", "ZeroDivisionError", 25>>
              <=> (arg.row.P0_ratio = Num(0) /\ arg.kind = "float")
        /\ (/\ IsNum(arg.row.P0_ratio) /\ arg.row.P0_ratio[2] <= 0
            /\ ~(arg.row.P0_ratio = Num(0) /\ arg.kind = "float"))
              => ret = calculate_scale([mdot_ref |-> arg.row.mdot_ref,
                                        T0_ratio |-> arg.row.T0_ratio,
                                        P0_ratio |-> Num(MinP0Ratio)], arg.kind)

\* a direct call with a negative P0_ratio that returned a scale
C7_Witness ==
    /\ Returned
    /\ arg.row.P0_ratio = Num(0 - 12000)
    /\ ret[1] = "value"

\* C8: the rows scored are exactly the rows of the table with P0_ratio >=
\* 1.0686, and the rows the optimum is selected from (and plotted as valid)
\* are exactly those of them whose scale is present.
C8_ResultIsFilteredAndScored ==
    Scored =>
        /\ Labels(valid_df) = {i - 1 : i \in {k \in 1 .. Len(df) : PassesFilter(df[k])}}
        /\ pc # "dropna" =>
              Labels(result_df) =
                  {valid_df[i].index :
                      i \in {k \in 1 .. Len(valid_df) : ~IsNaN(valid_df[k].scale)}}

\* C9: no step changes the table as read, and the 'All Points' series is the
\* mdot_ref and P0_ratio of every row of it, in input order.
C9_TableUnchanged ==
    [][/\ df' = df
       /\ figure' # <<>> =>
             figure'.all = [i \in 1 .. Len(df) |-> <<df[i].mdot_ref, df[i].P0_ratio>>]]_vars

\* a plot of a two-row table one row of which the filter rejected
C9_Witness ==
    /\ figure # <<>>
    /\ Len(df) = 2
    /\ Len(figure.all) = 2
    /\ \E i \in 1 .. 2 : ~PassesFilter(df[i])

\* C10: among scored rows the scale grows strictly with T0_ratio, a row has a
\* scale exactly when its T0_ratio is positive and not above a threshold, and
\* the selected row is the first in input order, among the rows with a
\* scale, of those with the greatest T0_ratio.
HasScale(r) == ~IsNaN(r.scale)

C10_OptimalIsFirstGreatestT0 ==
    Scored =>
        /\ \A i, j \in 1 .. Len(valid_df) :
              LET a == valid_df[i]
                  b == valid_df[j]
              IN  /\ HasScale(a) => IsNum(a.T0_ratio) /\ a.T0_ratio[2] > 0
                  /\ (HasScale(a) /\ HasScale(b) /\ a.T0_ratio[2] < b.T0_ratio[2])
                        => a.scale[2] < b.scale[2]
                  /\ (HasScale(b) /\ IsNum(a.T0_ratio) /\ a.T0_ratio[2] > 0
                        /\ a.T0_ratio[2] <= b.T0_ratio[2]) => HasScale(a)
        /\ Branched =>
              \A i \in 1 .. Len(valid_df) :
                  (/\ HasScale(valid_df[i])
                   /\ \A j \in 1 .. Len(valid_df) :
                         HasScale(valid_df[j]) =>
                             /\ valid_df[j].T0_ratio[2] <= valid_df[i].T0_ratio[2]
                             /\ valid_df[j].T0_ratio[2] = valid_df[i].T0_ratio[2] => i <= j)
                      => /\ optimal # <<>>
                         /\ optimal.index = valid_df[i].index

====
